---------------------------- MODULE Spec2Model ----------------------------
(***************************************************************************)
(* rtdriver: a SIZE x SIZE lattice of point masses coupled by linear       *)
(* springs (src/src/simulator.rs, src/src/lib.rs).                         *)
(*                                                                         *)
(* Four specifications share the module:                                   *)
(*   Spec      the program as its public API drives it: the builder's      *)
(*             chained setters, finish(), then update(dt) calls;           *)
(*   SpecField update(dt) applied to a Simulation value whose fields are   *)
(*             drawn from bounded sets (update as a function of the state);*)
(*   SpecPass  one compute_acc pass taken cell by cell, the cells in any   *)
(*             order, followed by the swap of update;                      *)
(*   SpecIdx   the pure functions filter_indices / index / deindex applied *)
(*             to inputs drawn from bounded sets.                          *)
(*                                                                         *)
(* Scalars.  T: Float is modelled as the exact integers plus the IEEE      *)
(* special values +inf, -inf and NaN; rounding, finite overflow and the    *)
(* sign of zero are not modelled.  usize / isize keep a width of WordBits  *)
(* bits; arithmetic overflow panics when the build has overflow checks     *)
(* (debug, cargo test) and wraps otherwise (release).                      *)
(***************************************************************************)
EXTENDS Integers, Sequences, FiniteSets, TLC

VARIABLES
    \* ---- the builder (SimulationBuilder) and the position in the program
    phase,              \* "builder" | "sim" | "pass" | "idx"
    b_stiffness,        \* SimulationBuilder.stiffness : Option<T>
    b_origin_stiffness, \* SimulationBuilder.origin_stiffness : Option<T>
    \* ---- the simulation (Simulation / SimulationState)
    SIZE,               \* the const generic SIZE of this instantiation
    stiffness, origin_stiffness,
    pos, vel, acc, tmp_acc,
    \* ---- one compute_acc pass taken cell by cell (SpecPass)
    pending,            \* the cells of the pass not yet processed
    \* ---- history, read by the properties only
    h_set_stiffness,    \* argument of the last stiffness(v) call, if any
    h_set_origin,       \* argument of the last origin_stiffness(v) call, if any
    h_start,            \* the simulation's fields as constructed / drawn, or at pass start
    h_updates,          \* number of update calls made (capped at MaxUpdates)
    h_dt,               \* the dt argument of the latest update call, if any
    h_acc_first,        \* acc right after the first update call
    h_acc_before,       \* acc right before the latest update call
    \* ---- calls of the pure index functions (SpecIdx)
    overflow_checks,    \* the build's overflow-checks setting
    i_size, i_dims,     \* the const generics SIZE, DIMS of the call
    i_coords, i_k,      \* the arguments
    i_op, i_result      \* the function called and what it returned

simVars == <<SIZE, stiffness, origin_stiffness, pos, vel, acc, tmp_acc>>
builderVars == <<b_stiffness, b_origin_stiffness>>
histVars == <<h_set_stiffness, h_set_origin, h_start, h_updates, h_dt,
              h_acc_first, h_acc_before>>
idxVars == <<overflow_checks, i_size, i_dims, i_coords, i_k, i_op, i_result>>
vars == <<phase, builderVars, simVars, pending, histVars, idxVars>>

----------------------------------------------------------------------------
(* Bounds of the model.                                                    *)

MaxSize == 3        \* lattice side lengths 1..MaxSize (Spec, SpecField)
MaxPassSize == 2    \* lattice side lengths 1..MaxPassSize (SpecPass)
MaxCoef == 2        \* largest finite stiffness coefficient drawn
MaxUpdates == 3     \* update calls counted by the history
MaxIdxSize == 3     \* SIZE of the index functions: 1..MaxIdxSize and the wide cases
MaxIdxDims == 3     \* DIMS of the index functions: 0..MaxIdxDims
WordBits == 16      \* width of usize / isize on the target

----------------------------------------------------------------------------
(* Option<T> and the outcome of a call.                                    *)

None == [tag |-> "None"]
Some(v) == [tag |-> "Some", val |-> v]
\* a panic (arithmetic overflow with overflow checks on, division by zero)
Panic == [tag |-> "Panic"]

unwrap_or(opt, default) == IF opt = None THEN default ELSE opt.val

----------------------------------------------------------------------------
(* usize / isize arithmetic at WordBits bits.  A usize value is a natural  *)
(* number; Poison stands for a computation that panicked.                  *)

RECURSIVE TwoPow(_)
TwoPow(n) == IF n = 0 THEN 1 ELSE 2 * TwoPow(n - 1)

Modulus == TwoPow(WordBits)
USIZE_MAX == Modulus - 1
ISIZE_MAX == TwoPow(WordBits - 1) - 1
ISIZE_MIN == 0 - TwoPow(WordBits - 1)

Poison == 0 - 1

\* `x as isize` for a usize x: the same bits read as two's complement
AsIsize(x) == IF x > ISIZE_MAX THEN x - Modulus ELSE x

\* `x as usize` for an isize x
AsUsize(x) == IF x < 0 THEN x + Modulus ELSE x

\* a * b modulo 2^WordBits, keeping every intermediate value small
MulWrap(a, b) ==
    LET lo == b % 256
        hi == b \div 256
    IN  (a * lo + ((a * hi) % Modulus) * 256) % Modulus

MulOverflows(a, b) == b # 0 /\ a > USIZE_MAX \div b

\* usize `a * b`
UMul(a, b) ==
    IF a = Poison \/ b = Poison THEN Poison
    ELSE IF MulOverflows(a, b)
         THEN (IF overflow_checks THEN Poison ELSE MulWrap(a, b))
         ELSE a * b

\* usize `a + b`
UAdd(a, b) ==
    IF a = Poison \/ b = Poison THEN Poison
    ELSE IF a + b > USIZE_MAX
         THEN (IF overflow_checks THEN Poison ELSE (a + b) % Modulus)
         ELSE a + b

\* usize `a / b` and `a % b`: division by zero panics in every build
UDiv(a, b) ==
    IF a = Poison \/ b = Poison \/ b = 0 THEN Poison ELSE a \div b

URem(a, b) ==
    IF a = Poison \/ b = Poison \/ b = 0 THEN Poison ELSE a % b

\* usize::pow: panics (overflow checks) or wraps exactly when the result overflows
RECURSIVE UPow(_, _)
UPow(b, e) == IF e = 0 THEN 1 ELSE UMul(UPow(b, e - 1), b)

\* |b|^e, saturating at cap + 1
RECURSIVE SatPow(_, _, _)
SatPow(b, e, cap) ==
    IF e = 0 THEN 1
    ELSE IF b = 0 THEN 0
    ELSE LET r == SatPow(b, e - 1, cap)
         IN  IF r > cap \div b THEN cap + 1 ELSE r * b

RECURSIVE WrapPow(_, _)
WrapPow(b, e) == IF e = 0 THEN 1 ELSE MulWrap(WrapPow(b, e - 1), b)

Abs(x) == IF x < 0 THEN 0 - x ELSE x

\* whether isize::pow(b, e) overflows isize
IPowOverflows(b, e) ==
    LET mag == SatPow(Abs(b), e, 0 - ISIZE_MIN)
        negative == b < 0 /\ e % 2 = 1
    IN  IF negative THEN mag > 0 - ISIZE_MIN ELSE mag > ISIZE_MAX

\* isize::pow: Panic, or the (possibly wrapped) value
IPow(b, e) ==
    IF IPowOverflows(b, e) /\ overflow_checks THEN Panic
    ELSE Some(AsIsize(WrapPow(AsUsize(b), e)))

----------------------------------------------------------------------------
(* Vector<T, D>: a tuple of length D (1-based here, 0-based in the code).  *)

\* a sequence given as a function, evaluated once into a tuple
Tuple(s) == SubSeq(s, 1, Len(s))

\* Vector::map with a cast, |i| i as usize
VAsUsize(v) == Tuple([i \in DOMAIN v |-> AsUsize(v[i])])

\* Vector::map with a range test, |i| (lo..hi).contains(&i)
VContains(lo, hi, v) == Tuple([i \in DOMAIN v |-> lo <= v[i] /\ v[i] < hi])

\* Vector::<bool, D>::all
VAll(v) == \A i \in DOMAIN v : v[i]

\* Vector::from_idx(|i| SIZE.pow(e_i)), e the exponent of each axis
VStrides(size, d, e) == Tuple([i \in 1..d |-> UPow(size, e[i])])

\* Vector::broadcast
VBroadcast(x, d) == Tuple([i \in 1..d |-> x])

\* elementwise `a * b`, `a / b`, `a % b` on Vector<usize, D>
VMulU(a, b) == Tuple([i \in DOMAIN a |-> UMul(a[i], b[i])])
VDivU(a, b) == Tuple([i \in DOMAIN a |-> UDiv(a[i], b[i])])
VRemU(a, b) == Tuple([i \in DOMAIN a |-> URem(a[i], b[i])])

\* Vector::<usize, D>::sum: left to right from the additive identity
RECURSIVE SumFrom(_, _, _)
SumFrom(v, i, s) == IF i > Len(v) THEN s ELSE SumFrom(v, i + 1, UAdd(s, v[i]))
VSumU(v) == SumFrom(v, 1, 0)

----------------------------------------------------------------------------
(* Lattice indexing: filter_indices, index, deindex.                       *)

\* a mutant: the upper bound is included
filter_indices_inclusive(size, indices) ==
    IF VAll(VContains(0, AsIsize(size) + 1, indices))
    THEN Some(VAsUsize(indices))
    ELSE None

\* filter_indices::<SIZE, DIMS>(indices)
filter_indices(size, indices) ==
    IF VAll(VContains(0, AsIsize(size), indices))
    THEN Some(VAsUsize(indices))
    ELSE None

\* the result of a vector computation: Panic if any component panicked
Checked(x) == IF x = Poison THEN Panic ELSE Some(x)
CheckedVec(v) == IF \E i \in DOMAIN v : v[i] = Poison THEN Panic ELSE Some(v)

\* a mutant: the first axis varies fastest
index_column_major(size, indices) ==
    LET dims == Len(indices)
        f == filter_indices(size, indices)
    IN  IF f # None
        THEN LET data == VStrides(size, dims, [i \in 1..dims |-> i - 1])
             IN  Checked(VSumU(VMulU(f.val, data)))
        ELSE None

\* index::<SIZE, DIMS>(indices)
index(size, indices) ==
    LET dims == Len(indices)
        f == filter_indices(size, indices)
    IN  IF f # None
        THEN LET data == VStrides(size, dims, [i \in 1..dims |-> dims - i])
             IN  Checked(VSumU(VMulU(f.val, data)))
        ELSE None

\* a mutant: the strides in the opposite order
deindex_reversed(size, dims, k) ==
    LET range_end == IPow(AsIsize(size), dims)
    IN  IF range_end = Panic THEN Panic
        ELSE IF 0 <= k /\ k < range_end.val
        THEN LET kk == VBroadcast(AsUsize(k), dims)
                 data == VStrides(size, dims, [i \in 1..dims |-> i - 1])
             IN  CheckedVec(VRemU(VDivU(kk, data), VBroadcast(size, dims)))
        ELSE None

\* deindex::<SIZE, DIMS>(k)
deindex(size, dims, k) ==
    LET range_end == IPow(AsIsize(size), dims)
    IN  IF range_end = Panic THEN Panic
        ELSE IF 0 <= k /\ k < range_end.val
        THEN LET kk == VBroadcast(AsUsize(k), dims)
                 data == VStrides(size, dims, [i \in 1..dims |-> dims - i])
             IN  CheckedVec(VRemU(VDivU(kk, data), VBroadcast(size, dims)))
        ELSE None

----------------------------------------------------------------------------
(* T: Float.  A scalar is a finite value (an exact integer here) or one of  *)
(* the IEEE special values.                                                *)

F(n) == [k |-> "fin", v |-> n]
INF == [k |-> "inf", v |-> 1]
NINF == [k |-> "inf", v |-> 0 - 1]
NAN == [k |-> "nan", v |-> 0]

IsFinite(a) == a.k = "fin"
Sign(n) == IF n > 0 THEN 1 ELSE IF n < 0 THEN 0 - 1 ELSE 0

\* T::one(), T::zero()
FOne == F(1)
FZero == F(0)

\* `-a`
FNeg(a) == IF a.k = "nan" THEN NAN ELSE [a EXCEPT !.v = 0 - a.v]

\* `a * b`: 0 * inf is NaN
FMul(a, b) ==
    IF a.k = "nan" \/ b.k = "nan" THEN NAN
    ELSE IF a.k = "fin" /\ b.k = "fin" THEN F(a.v * b.v)
    ELSE IF Sign(a.v) * Sign(b.v) = 0 THEN NAN
    ELSE [k |-> "inf", v |-> Sign(a.v) * Sign(b.v)]

\* `a + b`: inf + -inf is NaN
FAdd(a, b) ==
    IF a.k = "nan" \/ b.k = "nan" THEN NAN
    ELSE IF a.k = "fin" /\ b.k = "fin" THEN F(a.v + b.v)
    ELSE IF a.k = "inf" /\ b.k = "inf" THEN (IF a.v = b.v THEN a ELSE NAN)
    ELSE IF a.k = "inf" THEN a ELSE b

\* `a - b`
FSub(a, b) == FAdd(a, FNeg(b))

\* Vector<T, D>: elementwise `a + b`, `a - b`, `-a`, and Vector::zero()
VAdd(a, b) == Tuple([i \in DOMAIN a |-> FAdd(a[i], b[i])])
VSub(a, b) == Tuple([i \in DOMAIN a |-> FSub(a[i], b[i])])
VNeg(a) == Tuple([i \in DOMAIN a |-> FNeg(a[i])])
VZero(d) == Tuple([i \in 1..d |-> FZero])

\* Vector::map(|i| i * c)
VScale(v, c) == Tuple([i \in DOMAIN v |-> FMul(v[i], c)])

\* Vector<isize, D>: elementwise `a + b`
VAddI(a, b) == Tuple([i \in DOMAIN a |-> a[i] + b[i]])

----------------------------------------------------------------------------
(* lib.rs: DIMS and the stencil.                                           *)

DIMS == 2

\* a mutant: the -1 offset of every axis is left at 0
stencil_up_only(dims) ==
    Tuple([i \in 1..dims |->
        << Tuple([a \in 1..dims |-> IF a = i THEN 1 ELSE 0]),
           Tuple([a \in 1..dims |-> 0]) >>])

\* stencil(): for each axis the pair of offsets +1 and -1 along it
stencil(dims) ==
    Tuple([i \in 1..dims |->
        << Tuple([a \in 1..dims |-> IF a = i THEN 1 ELSE 0]),
           Tuple([a \in 1..dims |-> IF a = i THEN 0 - 1 ELSE 0]) >>])

STENCIL == stencil(DIMS)

----------------------------------------------------------------------------
(* The grids and the simulation value.                                     *)

Cells(n) == (0..(n - 1)) \X (0..(n - 1))

\* a mutant: the storage starts at T::one()
UnitGrid(n) == [c \in Cells(n) |-> Tuple([i \in 1..DIMS |-> FOne])]

\* bytemuck::zeroed_box(): every cell the zero vector
ZeroGrid(n) == [c \in Cells(n) |-> VZero(DIMS)]

\* the cells in the order of the loops `for i in 0..SIZE { for j in 0..SIZE`
RowMajor(n) == [k \in 1..(n * n) |-> <<(k - 1) \div n, (k - 1) % n>>]

\* the Simulation as a value: state.{stiffness, origin_stiffness, pos, vel, acc}
\* and tmp_acc
SimRec ==
    [stiffness |-> stiffness, origin_stiffness |-> origin_stiffness,
     pos |-> pos, vel |-> vel, acc |-> acc, tmp_acc |-> tmp_acc]

\* [[a, b], [c, d]] flattened to [a, b, c, d]
FlattenPairs(pairs) ==
    Tuple([k \in 1..(2 * Len(pairs)) |-> pairs[(k + 1) \div 2][((k - 1) % 2) + 1]])

\* a sequence of Options flattened to the values of its Some entries
FlattenOptions(opts) ==
    LET present == SelectSeq(opts, LAMBDA o : o # None)
    IN  Tuple([k \in 1..Len(present) |-> present[k].val])

\* the in-bounds neighbour coordinates of cell (i, j), in stencil order
StencilIndices(n, i, j) ==
    LET indices == <<i, j>>
        mapped == Tuple([a \in DOMAIN STENCIL |->
                     LET indices_up == VAddI(indices, STENCIL[a][1])
                         indices_down == VAddI(indices, STENCIL[a][2])
                     IN  << filter_indices(n, indices_up),
                            filter_indices(n, indices_down) >>])
    IN  FlattenOptions(FlattenPairs(mapped))

\* a mutant: the coupling terms are added instead of subtracted
RECURSIVE CoupledFrom_adding(_, _, _, _)
CoupledFrom_adding(st, nbrs, k, coupled_acc) ==
    IF k > Len(nbrs) THEN coupled_acc
    ELSE LET position_stencil == st.pos[<<nbrs[k][1], nbrs[k][2]>>]
         IN  CoupledFrom_adding(st, nbrs, k + 1,
                 VAdd(coupled_acc,
                      VScale(position_stencil, st.stiffness)))

\* the loop over the stencil: coupled_acc - position_stencil * stiffness
RECURSIVE CoupledFrom(_, _, _, _)
CoupledFrom(st, nbrs, k, coupled_acc) ==
    IF k > Len(nbrs) THEN coupled_acc
    ELSE LET position_stencil == st.pos[<<nbrs[k][1], nbrs[k][2]>>]
         IN  CoupledFrom(st, nbrs, k + 1,
                 VSub(coupled_acc,
                      VScale(position_stencil, st.stiffness)))

\* a mutant: the result is written to the live acc grid
compute_cell_in_place(st, n, i, j) ==
    LET position_here == st.pos[<<i, j>>]
        origin_acc == VNeg(VScale(position_here, st.origin_stiffness))
        coupled_acc == CoupledFrom(st, StencilIndices(n, i, j), 1, VZero(DIMS))
    IN  [st EXCEPT !.acc[<<i, j>>] = VAdd(origin_acc, coupled_acc)]

\* a mutant: the cell's position is advanced by its velocity
compute_cell_integrating(st, n, i, j) ==
    LET position_here == st.pos[<<i, j>>]
        origin_acc == VNeg(VScale(position_here, st.origin_stiffness))
        coupled_acc == CoupledFrom(st, StencilIndices(n, i, j), 1, VZero(DIMS))
    IN  [st EXCEPT !.tmp_acc[<<i, j>>] = VAdd(origin_acc, coupled_acc),
                   !.pos[<<i, j>>] = VAdd(position_here, st.vel[<<i, j>>])]

\* the body of the loops of compute_acc for cell (i, j)
compute_cell(st, n, i, j) ==
    LET position_here == st.pos[<<i, j>>]
        origin_acc == VNeg(VScale(position_here, st.origin_stiffness))
        coupled_acc == CoupledFrom(st, StencilIndices(n, i, j), 1, VZero(DIMS))
    IN  [st EXCEPT !.tmp_acc[<<i, j>>] = VAdd(origin_acc, coupled_acc)]

\* compute_acc: the body for every cell, row by row
RECURSIVE ComputeFrom(_, _, _)
ComputeFrom(st, n, k) ==
    IF k > n * n THEN st
    ELSE ComputeFrom(compute_cell(st, n, RowMajor(n)[k][1], RowMajor(n)[k][2]), n, k + 1)

compute_acc(st, n) == ComputeFrom(st, n, 1)

\* a mutant: the swap is left out
update_no_swap(st, n, dt) == compute_acc(st, n)

\* std::mem::swap(&mut self.tmp_acc, &mut self.state.acc)
swap_acc(st) == [st EXCEPT !.tmp_acc = st.acc, !.acc = st.tmp_acc]

\* update(dt): compute_acc, then the swap
update(st, n, dt) == swap_acc(compute_acc(st, n))

----------------------------------------------------------------------------
(* The builder.                                                            *)

\* Simulation::build()
build == [stiffness |-> None, origin_stiffness |-> None]

\* a mutant: the first value set is kept
set_once(field, value) == IF field = None THEN Some(value) ELSE field

\* Option::replace as the setters use it: the new value is recorded
replace(field, value) == Some(value)

\* SimulationBuilder::finish
finish(b, n) ==
    [stiffness |-> unwrap_or(b.stiffness, FOne),
     origin_stiffness |-> unwrap_or(b.origin_stiffness, FOne),
     pos |-> ZeroGrid(n), vel |-> ZeroGrid(n),
     acc |-> ZeroGrid(n), tmp_acc |-> ZeroGrid(n)]

----------------------------------------------------------------------------
(* The values the specifications draw from.                                *)

\* stiffness coefficients given to the builder
Coefs == {F(x) : x \in (0 - 1)..MaxCoef} \cup {INF, NINF, NAN}

\* dt arguments of update
Dts == {F(1), NAN}

\* (stiffness, origin_stiffness) of a drawn simulation value
FieldCoefs ==
    { <<F(MaxCoef), F(1)>>, <<F(0), F(MaxCoef)>>, <<F(0 - 1), F(0)>>, <<INF, F(1)>> }

Fill(n, v) == [c \in Cells(n) |-> v]
HotGrid(n, hot, v, b) == [c \in Cells(n) |-> IF c \in hot THEN v ELSE b]

\* (vel, acc, tmp_acc) of a drawn simulation value
OtherGrids(n) ==
    { <<ZeroGrid(n), ZeroGrid(n), ZeroGrid(n)>>,
      <<Fill(n, <<F(1), F(0 - 1)>>), Fill(n, <<F(5), NAN>>), Fill(n, <<F(7), F(0)>>)>> }

\* a grid whose cells all differ
Ramp(n) == [c \in Cells(n) |-> <<F(c[1] * n + c[2] + 1), F(c[1] - c[2])>>]

\* position fields of a drawn simulation value: at rest, every cell different,
\* and one displaced cell on a uniform background
PosGrids(n) ==
    {ZeroGrid(n), Ramp(n)} \cup
    { HotGrid(n, {c}, vb[1], vb[2]) :
        c \in Cells(n),
        vb \in { << <<F(3), F(0 - 1)>>, <<F(0), F(0)>> >>,
                 << <<F(3), F(0 - 1)>>, <<F(1), F(2)>> >>,
                 << <<INF, F(0)>>, <<F(1), F(2)>> >> } }

\* the simulation values a cell-by-cell pass starts from
PassStarts(n) ==
    { [stiffness |-> co[1], origin_stiffness |-> co[2], pos |-> p,
       vel |-> Fill(n, <<F(1), F(0 - 1)>>), acc |-> Fill(n, <<F(5), NAN>>),
       tmp_acc |-> Fill(n, <<F(7), F(0)>>)] :
      co \in {<<F(MaxCoef), F(1)>>, <<F(0 - 1), INF>>},
      p \in {Ramp(n), HotGrid(n, {<<0, 0>>}, <<INF, F(0)>>, <<F(1), F(2)>>)} }

\* no simulation exists yet
Unbuilt == None

----------------------------------------------------------------------------
(* Initial states.                                                         *)

NoSim ==
    /\ stiffness = Unbuilt /\ origin_stiffness = Unbuilt
    /\ pos = Unbuilt /\ vel = Unbuilt /\ acc = Unbuilt /\ tmp_acc = Unbuilt

NoBuilder == b_stiffness = None /\ b_origin_stiffness = None

NoHistory ==
    /\ h_set_stiffness = None /\ h_set_origin = None
    /\ h_updates = 0 /\ h_dt = None
    /\ h_acc_first = None /\ h_acc_before = None

NoIdx ==
    /\ overflow_checks = TRUE
    /\ i_size = 1 /\ i_dims = 0 /\ i_coords = <<>> /\ i_k = 0
    /\ i_op = "none" /\ i_result = None

\* Simulation::<T, SIZE>::build(): an empty builder
Init ==
    /\ phase = "builder"
    /\ SIZE \in 1..MaxSize
    /\ b_stiffness = build.stiffness
    /\ b_origin_stiffness = build.origin_stiffness
    /\ NoSim /\ NoHistory /\ NoIdx
    /\ h_start = None
    /\ pending = {}

\* a Simulation value with drawn fields
InitField ==
    /\ phase = "sim"
    /\ SIZE \in 1..MaxSize
    /\ \E co \in FieldCoefs : stiffness = co[1] /\ origin_stiffness = co[2]
    /\ pos \in PosGrids(SIZE)
    /\ \E g \in OtherGrids(SIZE) : vel = g[1] /\ acc = g[2] /\ tmp_acc = g[3]
    /\ h_start = SimRec
    /\ NoBuilder /\ NoHistory /\ NoIdx
    /\ pending = {}

\* a Simulation value about to be updated cell by cell
InitPass ==
    /\ phase = "sim"
    /\ SIZE \in 1..MaxPassSize
    /\ \E st \in PassStarts(SIZE) :
         /\ stiffness = st.stiffness /\ origin_stiffness = st.origin_stiffness
         /\ pos = st.pos /\ vel = st.vel /\ acc = st.acc /\ tmp_acc = st.tmp_acc
         /\ h_start = st
    /\ NoBuilder /\ NoHistory /\ NoIdx
    /\ pending = {}

----------------------------------------------------------------------------
(* The program's operations.                                               *)

SetSim(st) ==
    /\ stiffness' = st.stiffness /\ origin_stiffness' = st.origin_stiffness
    /\ pos' = st.pos /\ vel' = st.vel /\ acc' = st.acc /\ tmp_acc' = st.tmp_acc

\* SimulationBuilder::stiffness(value)
SetStiffness(value) ==
    /\ phase = "builder"
    /\ b_stiffness' = replace(b_stiffness, value)
    /\ h_set_stiffness' = Some(value)
    /\ UNCHANGED <<phase, b_origin_stiffness, simVars, pending, h_set_origin,
                   h_start, h_updates, h_dt, h_acc_first, h_acc_before, idxVars>>

\* SimulationBuilder::origin_stiffness(value)
SetOriginStiffness(value) ==
    /\ phase = "builder"
    /\ b_origin_stiffness' = replace(b_origin_stiffness, value)
    /\ h_set_origin' = Some(value)
    /\ UNCHANGED <<phase, b_stiffness, simVars, pending, h_set_stiffness,
                   h_start, h_updates, h_dt, h_acc_first, h_acc_before, idxVars>>

\* SimulationBuilder::finish()
Finish ==
    /\ phase = "builder"
    /\ LET st == finish([stiffness |-> b_stiffness,
                         origin_stiffness |-> b_origin_stiffness], SIZE)
       IN  SetSim(st) /\ h_start' = st
    /\ phase' = "sim"
    /\ UNCHANGED <<SIZE, builderVars, pending, h_set_stiffness, h_set_origin,
                   h_updates, h_dt, h_acc_first, h_acc_before, idxVars>>

\* Simulation::update(dt), the whole call
Update(dt) ==
    /\ phase = "sim"
    /\ h_updates < MaxUpdates
    /\ LET st == update(SimRec, SIZE, dt)
       IN  /\ SetSim(st)
           /\ h_acc_first' = IF h_updates = 0 THEN Some(st.acc) ELSE h_acc_first
    /\ h_acc_before' = Some(acc)
    /\ h_updates' = h_updates + 1
    /\ h_dt' = Some(dt)
    /\ UNCHANGED <<phase, SIZE, builderVars, pending, h_set_stiffness,
                   h_set_origin, h_start, idxVars>>

Next ==
    \/ \E value \in Coefs : SetStiffness(value)
    \/ \E value \in Coefs : SetOriginStiffness(value)
    \/ Finish
    \/ \E dt \in Dts : Update(dt)

Spec == Init /\ [][Next]_vars

NextField == \E dt \in Dts : Update(dt)

SpecField == InitField /\ [][NextField]_vars

----------------------------------------------------------------------------
(* update(dt) taken one cell at a time, the cells in any order.            *)

\* update is entered: compute_acc starts its pass
BeginUpdate(dt) ==
    /\ phase = "sim"
    /\ h_updates < MaxUpdates
    /\ phase' = "pass"
    /\ pending' = Cells(SIZE)
    /\ h_start' = SimRec
    /\ h_updates' = h_updates + 1
    /\ h_dt' = Some(dt)
    /\ UNCHANGED <<simVars, builderVars, h_set_stiffness, h_set_origin,
                   h_acc_first, h_acc_before, idxVars>>

\* the loop body for one cell not yet processed
PassCell(c) ==
    /\ phase = "pass"
    /\ c \in pending
    /\ SetSim(compute_cell(SimRec, SIZE, c[1], c[2]))
    /\ pending' = pending \ {c}
    /\ UNCHANGED <<phase, SIZE, builderVars, histVars, idxVars>>

\* the pass is over: the swap, and update returns
EndUpdate ==
    /\ phase = "pass"
    /\ pending = {}
    /\ SetSim(swap_acc(SimRec))
    /\ phase' = "sim"
    /\ h_acc_first' = IF h_updates = 1 THEN Some(tmp_acc) ELSE h_acc_first
    /\ h_acc_before' = Some(acc)
    /\ UNCHANGED <<SIZE, builderVars, pending, h_set_stiffness, h_set_origin,
                   h_start, h_updates, h_dt, idxVars>>

NextPass ==
    \/ \E dt \in Dts : BeginUpdate(dt)
    \/ \E c \in Cells(SIZE) : PassCell(c)
    \/ EndUpdate

SpecPass == InitPass /\ [][NextPass]_vars

----------------------------------------------------------------------------
(* Calls of filter_indices, index and deindex on drawn arguments.          *)

\* the instantiations of the tests, and instantiations whose SIZE^DIMS does
\* not fit the machine word
TestSizes == {5, 10, 100}
WideSizes == {TwoPow(WordBits \div 2), TwoPow(WordBits - 1)}
IdxSizes == (1..MaxIdxSize) \cup TestSizes \cup WideSizes

\* size^dims, or ISIZE_MAX + 1 if it is larger than ISIZE_MAX
LatticeCells(size, dims) == SatPow(size, dims, ISIZE_MAX)

\* coordinates and flat indices given to the calls (all of them isize values)
CoordVals(size) ==
    IF size <= MaxIdxSize THEN (0 - 1)..size
    ELSE IF size \in TestSizes THEN {0 - 1, 0, 2, 5, 9, 10, size - 1, size}
    ELSE {x \in {0 - 1, 0, 1, size - 1, size} : x <= ISIZE_MAX}

CoordVecs(size, dims) == [1..dims -> CoordVals(size)]

KVals(size, dims) ==
    {k \in ((0 - 1)..LatticeCells(MaxIdxSize, MaxIdxDims))
           \cup {99, 210, 999, 9999, 10000, ISIZE_MAX,
                 LatticeCells(size, dims) - 1, LatticeCells(size, dims)} :
        k <= ISIZE_MAX}

InitIdx ==
    /\ phase = "idx"
    /\ overflow_checks \in BOOLEAN
    /\ i_size \in IdxSizes
    /\ i_dims \in 0..MaxIdxDims
    /\ i_coords = <<>> /\ i_k = 0
    /\ i_op = "none" /\ i_result = None
    /\ SIZE = 1
    /\ NoSim /\ NoBuilder /\ NoHistory
    /\ h_start = None
    /\ pending = {}

CallFilterIndices(indices) ==
    /\ phase = "idx" /\ i_op = "none"
    /\ i_op' = "filter_indices"
    /\ i_coords' = indices
    /\ i_result' = filter_indices(i_size, indices)
    /\ UNCHANGED <<phase, builderVars, simVars, pending, histVars,
                   overflow_checks, i_size, i_dims, i_k>>

CallIndex(indices) ==
    /\ phase = "idx" /\ i_op = "none"
    /\ i_op' = "index"
    /\ i_coords' = indices
    /\ i_result' = index(i_size, indices)
    /\ UNCHANGED <<phase, builderVars, simVars, pending, histVars,
                   overflow_checks, i_size, i_dims, i_k>>

CallDeindex(k) ==
    /\ phase = "idx" /\ i_op = "none"
    /\ i_op' = "deindex"
    /\ i_k' = k
    /\ i_result' = deindex(i_size, i_dims, k)
    /\ UNCHANGED <<phase, builderVars, simVars, pending, histVars,
                   overflow_checks, i_size, i_dims, i_coords>>

NextIdx ==
    \/ \E indices \in CoordVecs(i_size, i_dims) : CallFilterIndices(indices)
    \/ \E indices \in CoordVecs(i_size, i_dims) : CallIndex(indices)
    \/ \E k \in KVals(i_size, i_dims) : CallDeindex(k)

SpecIdx == InitIdx /\ [][NextIdx]_vars

----------------------------------------------------------------------------
(* What the index functions are to compute, stated independently.          *)

\* every component of c lies in [0, size)
InRange(size, c) == \A i \in DOMAIN c : 0 <= c[i] /\ c[i] < size

\* SIZE^DIMS <= isize::MAX
Fits(size, dims) == LatticeCells(size, dims) <= ISIZE_MAX

\* sum over the axes i of c[i] * size^(D-1-i), by Horner's rule, or
\* USIZE_MAX + 1 if it is larger than USIZE_MAX
RECURSIVE Horner(_, _, _)
Horner(size, c, n) ==
    IF n = 0 THEN 0
    ELSE LET h == Horner(size, c, n - 1)
         IN  IF h > (USIZE_MAX - c[n]) \div size THEN USIZE_MAX + 1
             ELSE h * size + c[n]

RowMajorIndex(size, c) == Horner(size, c, Len(c))

\* component i (0-based) of flat index k: (k div size^(D-1-i)) mod size
Digit(size, dims, k, i) == (k \div SatPow(size, dims - 1 - i, ISIZE_MAX)) % size

\* a Vector<usize, D> read as a Vector<isize, D>
AsCoords(v) == Tuple([i \in DOMAIN v |-> AsIsize(v[i])])

InverseLaw ==
    /\ (i_op = "index" /\ InRange(i_size, i_coords)) =>
          /\ i_result.tag = "Some"
          /\ 0 <= i_result.val
          /\ i_result.val < LatticeCells(i_size, i_dims)
          /\ deindex(i_size, i_dims, AsIsize(i_result.val)) = Some(i_coords)
    /\ (i_op = "deindex" /\ 0 <= i_k /\ i_k < LatticeCells(i_size, i_dims)) =>
          /\ i_result.tag = "Some"
          /\ index(i_size, AsCoords(i_result.val)) = Some(i_k)

\* C2 as stated: index and deindex are exact inverses on valid input, for every
\* SIZE >= 1 and every D.
C2_AsStated == phase = "idx" => InverseLaw

\* C2, amended: for every SIZE >= 1 and D with SIZE^D <= isize::MAX, every
\* in-range coordinate vector c has index(c) = Some(k) with 0 <= k < SIZE^D and
\* deindex(k) = Some(c), and every k in [0, SIZE^D) has index(deindex(k)) = Some(k).
C2_InverseLaw == (phase = "idx" /\ Fits(i_size, i_dims)) => InverseLaw

\* index was called on an in-range vector of two or more axes and returned a
\* flat index beyond the first row
C2_Witness ==
    /\ i_op = "index" /\ i_dims >= 2 /\ Fits(i_size, i_dims)
    /\ InRange(i_size, i_coords)
    /\ i_result.tag = "Some" /\ i_result.val > i_size

Rejection ==
    /\ i_op = "index" =>
          /\ i_result # Panic
          /\ (i_result = None) <=> ~InRange(i_size, i_coords)
          /\ (i_result = None) <=> (filter_indices(i_size, i_coords) = None)
    /\ i_op = "deindex" =>
          /\ i_result # Panic
          /\ (i_result = None) <=> (i_k < 0 \/ i_k >= LatticeCells(i_size, i_dims))
    /\ i_op = "filter_indices" =>
          /\ i_result # Panic
          /\ (i_result = None) <=> ~InRange(i_size, i_coords)
          /\ (i_result = None) <=> (index(i_size, i_coords) = None)
          /\ InRange(i_size, i_coords) => i_result = Some(i_coords)

\* C3 as stated: out-of-range input yields None and never a failure, for every
\* instantiation.
C3_AsStated == phase = "idx" => Rejection

\* C3, amended: when SIZE^D <= isize::MAX, index(c) is None iff some component of
\* c is negative or >= SIZE, deindex(k) is None iff k < 0 or k >= SIZE^D, neither
\* fails, and filter_indices(c) is None under the same condition as index(c) and
\* otherwise returns c unchanged.
C3_Rejection == (phase = "idx" /\ Fits(i_size, i_dims)) => Rejection

\* index returned None for a vector with one component out of range and another
\* one in range
C3_Witness ==
    /\ i_op = "index" /\ i_result = None /\ Fits(i_size, i_dims)
    /\ \E i, j \in DOMAIN i_coords :
          /\ i_coords[i] >= i_size
          /\ 0 <= i_coords[j] /\ i_coords[j] < i_size

RowMajorLaw ==
    /\ (i_op = "index" /\ InRange(i_size, i_coords)) =>
          /\ RowMajorIndex(i_size, i_coords) <= USIZE_MAX
          /\ i_result = Some(RowMajorIndex(i_size, i_coords))
    /\ (i_op = "deindex" /\ 0 <= i_k /\ i_k < LatticeCells(i_size, i_dims)) =>
          /\ i_result.tag = "Some"
          /\ \A i \in 0..(i_dims - 1) :
                i_result.val[i + 1] = Digit(i_size, i_dims, i_k, i)

\* the values the tests and the claim give
RowMajorExamples ==
    /\ (i_op = "index" /\ i_size = 100 /\ i_coords = <<2, 10>>) => i_result = Some(210)
    /\ (i_op = "index" /\ i_size = 100 /\ i_coords = <<2, 10, 5>>) => i_result = Some(21005)
    /\ (i_op = "index" /\ i_size = 10 /\ i_coords = <<9, 9>>) => i_result = Some(99)
    /\ (i_op = "deindex" /\ i_size = 5 /\ i_dims = 3 /\ i_k = 99) => i_result = Some(<<3, 4, 4>>)

\* C4 as stated: for every in-range c, index(c) is the row-major flat index, and
\* deindex(k) recovers component i as (k div SIZE^(D-1-i)) mod SIZE.
C4_AsStated == phase = "idx" => (RowMajorLaw /\ RowMajorExamples)

\* C4, amended: when SIZE^D <= isize::MAX, index(c) of an in-range c is the sum
\* over the axes i of c[i] * SIZE^(D-1-i), and deindex(k) recovers component i as
\* (k div SIZE^(D-1-i)) mod SIZE; index<100,2>([2,10]) = 210,
\* index<100,3>([2,10,5]) = 21005 and deindex<5,3>(99) = [3,4,4].
C4_RowMajor ==
    phase = "idx" => ((Fits(i_size, i_dims) => RowMajorLaw) /\ RowMajorExamples)

\* index::<100, 2>([2, 10]) was called and returned Some(210)
C4_Witness ==
    /\ i_op = "index" /\ i_size = 100 /\ i_coords = <<2, 10>>
    /\ i_result = Some(210)

----------------------------------------------------------------------------
(* What update is to compute, stated independently.  In the formulas two   *)
(* grids are equal when they hold the same values cell by cell, NaN        *)
(* included.                                                               *)

Zero2 == <<F(0), F(0)>>
AllZero(grid) == \A c \in DOMAIN grid : grid[c] = Zero2

\* the cells of the lattice at distance 1 from c along one axis
Adjacent(n, c) ==
    {d \in Cells(n) : Abs(d[1] - c[1]) + Abs(d[2] - c[2]) = 1}

\* sum over the cells d of a set of -(stiffness * pos[d][a])
RECURSIVE CouplingSum(_, _, _)
CouplingSum(st, cells, a) ==
    IF cells = {} THEN F(0)
    ELSE LET d == CHOOSE x \in cells : TRUE
         IN  FAdd(FNeg(FMul(st.stiffness, st.pos[d][a])),
                  CouplingSum(st, cells \ {d}, a))

\* -origin_stiffness * pos[c] plus the sum over the neighbours inside the lattice
ExpectedAcc(st, n, c) ==
    Tuple([a \in 1..DIMS |->
        FAdd(FNeg(FMul(st.origin_stiffness, st.pos[c][a])),
             CouplingSum(st, Adjacent(n, c), a))])

\* C1: after update(dt), every cell's live acceleration is
\* -origin_stiffness * pos plus the sum of -stiffness * pos[neighbour] over the
\* neighbours inside the lattice, whatever dt, vel and the previous acc / tmp_acc.
C1_Acceleration ==
    (phase = "sim" /\ h_updates >= 1) =>
        \A c \in Cells(SIZE) : acc[c] = ExpectedAcc(h_start, SIZE, c)

\* update ran with dt = NaN on a 3 x 3 lattice with non-zero vel and a non-zero
\* previous acc, and the interior cell got a non-zero acceleration
C1_Witness ==
    /\ phase = "sim" /\ h_updates = 1 /\ h_dt = Some(NAN) /\ SIZE = 3
    /\ ~AllZero(vel) /\ ~AllZero(h_start.acc)
    /\ acc[<<1, 1>>] # Zero2
    /\ acc[<<1, 1>>] = ExpectedAcc(h_start, SIZE, <<1, 1>>)

\* C5: on an N x N lattice with N > 1 the stencil loop accumulates exactly 2
\* neighbour positions for a corner cell, 3 for an edge cell that is no corner
\* and 4 for an interior cell, each of them adjacent to the cell (none wrapped).
C5_CouplingCount ==
    (phase = "sim" /\ SIZE > 1) =>
        \A c \in Cells(SIZE) :
            LET nbrs == StencilIndices(SIZE, c[1], c[2])
                onEdge(x) == x = 0 \/ x = SIZE - 1
                edges == (IF onEdge(c[1]) THEN 1 ELSE 0) + (IF onEdge(c[2]) THEN 1 ELSE 0)
            IN  /\ Len(nbrs) = 4 - edges
                /\ \A k \in 1..Len(nbrs) : nbrs[k] \in Adjacent(SIZE, c)
                /\ \A k, l \in 1..Len(nbrs) : nbrs[k] = nbrs[l] => k = l

\* update ran on a 3 x 3 lattice: the corner took 2 terms, the edge cell 3 and
\* the interior cell 4
C5_Witness ==
    /\ phase = "sim" /\ h_updates >= 1 /\ SIZE = 3
    /\ Len(StencilIndices(SIZE, 0, 0)) = 2
    /\ Len(StencilIndices(SIZE, 0, 1)) = 3
    /\ Len(StencilIndices(SIZE, 1, 1)) = 4
    /\ pos = Ramp(3)

RestState == AllZero(pos) /\ AllZero(vel) /\ AllZero(acc)

\* C6 as stated: a simulation produced by the builder stays at rest under
\* update, whatever the coefficients.
C6_AsStated == phase = "sim" => RestState

\* C6, amended: for a simulation produced by the builder with any finite
\* stiffness and origin_stiffness (zero and negative included), after any number
\* of update calls every cell of acc, pos and vel is still the zero vector.
C6_RestState ==
    (phase = "sim" /\ IsFinite(stiffness) /\ IsFinite(origin_stiffness)) => RestState

\* a built simulation with a negative and a zero coefficient after two updates
C6_Witness ==
    /\ phase = "sim" /\ h_updates = 2
    /\ stiffness = F(0 - 1) /\ origin_stiffness = F(0)
    /\ RestState

\* C7: update(dt) leaves pos, vel, stiffness and origin_stiffness as they were
\* before the first call, for every dt.
C7_Frame ==
    phase = "sim" =>
        /\ pos = h_start.pos /\ vel = h_start.vel
        /\ stiffness = h_start.stiffness
        /\ origin_stiffness = h_start.origin_stiffness

\* two updates, the latest with dt = 1, changed acc of a simulation with
\* non-zero velocities
C7_Witness ==
    /\ phase = "sim" /\ h_updates = 2 /\ h_dt = Some(F(1))
    /\ ~AllZero(vel) /\ ~AllZero(pos)
    /\ acc # h_start.acc
    /\ pos = h_start.pos /\ vel = h_start.vel

\* C8: during a pass, whatever the order of the cells, pos, vel, the live acc
\* and the coefficients stay as they were at the start of the pass, a cell not
\* yet processed keeps its scratch value, and a processed cell's scratch value is
\* the one compute_acc gives in the order of the code.
C8_NoHazard ==
    phase = "pass" =>
        /\ pos = h_start.pos /\ vel = h_start.vel /\ acc = h_start.acc
        /\ stiffness = h_start.stiffness
        /\ origin_stiffness = h_start.origin_stiffness
        /\ \A c \in Cells(SIZE) :
              tmp_acc[c] = IF c \in pending THEN h_start.tmp_acc[c]
                           ELSE compute_acc(h_start, SIZE).tmp_acc[c]

\* a pass over a 2 x 2 lattice that processed the first cell of the code's order
\* last, and changed the scratch buffer
C8_Witness ==
    /\ phase = "pass" /\ SIZE = 2 /\ pending = {<<0, 0>>}
    /\ tmp_acc[<<1, 1>>] # h_start.tmp_acc[<<1, 1>>]
    /\ h_updates = 2

\* C9: finish() gives the simulation the value of the last stiffness call, or 1
\* if there was none, and likewise origin_stiffness; every value is accepted;
\* pos, vel, acc and tmp_acc are zero in every cell.
C9_Builder ==
    /\ phase = "builder" =>
          /\ ENABLED Finish
          /\ \A value \in Coefs :
                ENABLED SetStiffness(value) /\ ENABLED SetOriginStiffness(value)
    /\ phase = "sim" =>
          /\ h_start.stiffness = unwrap_or(h_set_stiffness, F(1))
          /\ h_start.origin_stiffness = unwrap_or(h_set_origin, F(1))
          /\ AllZero(h_start.pos) /\ AllZero(h_start.vel)
          /\ AllZero(h_start.acc) /\ AllZero(h_start.tmp_acc)
          /\ DOMAIN h_start.pos = Cells(SIZE)

\* a simulation built after stiffness(0) and no origin_stiffness call
C9_Witness ==
    /\ phase = "sim" /\ h_updates = 0
    /\ h_set_stiffness = Some(F(0)) /\ h_set_origin = None
    /\ stiffness = F(0) /\ origin_stiffness = F(1)
    /\ AllZero(pos) /\ AllZero(tmp_acc)

\* C10: with pos unchanged, acc after every update call equals acc after the
\* first one, and tmp_acc holds what acc held before the call.
C10_Idempotent ==
    (phase = "sim" /\ h_updates >= 1) =>
        /\ Some(acc) = h_acc_first
        /\ Some(tmp_acc) = h_acc_before

\* after the third update acc still is what the first update computed, which
\* differs from the acc the simulation started with
C10_Witness ==
    /\ phase = "sim" /\ h_updates = 3
    /\ Some(acc) = h_acc_first
    /\ acc # h_start.acc
    /\ tmp_acc = acc

============================================================================
